---- MODULE Spec2Model ----
(***************************************************************************)
(* Model of id3_manipulator.py: the path sanitizer (make_friendly_path),   *)
(* the tag extraction and placement of one file (move_audio_file) and the  *)
(* tree walk with its end-of-run reports (organize_by_tag).                *)
(*                                                                         *)
(* Strings are sequences of one-character strings.  The character U+0000   *)
(* is written NUL.  A destination path is the sequence of its components   *)
(* below the destination root; a source path is the position of the file   *)
(* in the order os.walk meets it.                                          *)
(***************************************************************************)
EXTENDS Integers, Sequences, FiniteSets, TLC

VARIABLES tree, idx, pc, run, fs, move_failures, unsupported_files,
          cwdIsScript, cwdOutput, outputDir, reports,
          log, sanIn, sanOut

vars == <<tree, idx, pc, run, fs, move_failures, unsupported_files,
          cwdIsScript, cwdOutput, outputDir, reports,
          log, sanIn, sanOut>>

walkVars == <<tree, idx, pc, run, fs, move_failures, unsupported_files,
              cwdIsScript, cwdOutput, outputDir, reports, log>>

(***************************************************************************)
(* Bounds                                                                  *)
(***************************************************************************)
MaxFiles == 3
MaxRuns == 2
MaxLen == 3

(***************************************************************************)
(* Characters and strings                                                  *)
(***************************************************************************)
NUL == "NUL"

UpperLetters == <<"A","B","C","D","E","F","G","H","I","J","K","L","M",
                  "N","O","P","Q","R","S","T","U","V","W","X","Y","Z">>
LowerLetters == <<"a","b","c","d","e","f","g","h","i","j","k","l","m",
                  "n","o","p","q","r","s","t","u","v","w","x","y","z">>

LowerChar(c) ==
    IF \E i \in 1..26 : UpperLetters[i] = c
    THEN LowerLetters[CHOOSE i \in 1..26 : UpperLetters[i] = c]
    ELSE c

Lower(s) == [i \in 1..Len(s) |-> LowerChar(s[i])]

Digits == <<"0","1","2","3","4","5","6","7","8","9">>

RECURSIVE Str(_)
Str(n) == IF n < 10 THEN <<Digits[n + 1]>>
          ELSE Str(n \div 10) \o <<Digits[(n % 10) + 1]>>

(* str() of an ID3 text frame: its values joined by U+0000. *)
RECURSIVE JoinNul(_)
JoinNul(text) ==
    IF Len(text) = 0 THEN <<>>
    ELSE IF Len(text) = 1 THEN text[1]
    ELSE text[1] \o <<NUL>> \o JoinNul(Tail(text))

HasNul(s) == \E i \in 1..Len(s) : s[i] = NUL

(* os.path.splitext: the extension starts at the last dot, unless only *)
(* dots precede it.                                                   *)
SplitExt(name) ==
    LET dots == {i \in 1..Len(name) : name[i] = "."}
    IN  IF dots = {} THEN <<name, <<>>>>
        ELSE LET d == CHOOSE i \in dots : \A j \in dots : j <= i
             IN  IF \E j \in 1..(d - 1) : name[j] # "."
                 THEN <<SubSeq(name, 1, d - 1), SubSeq(name, d, Len(name))>>
                 ELSE <<name, <<>>>>

(***************************************************************************)
(* make_friendly_path                                                      *)
(***************************************************************************)
invalid_chars == {"<", ">", ":", "\"", "/", "\\", "|", "?", "*"}

(* Faulty variant: the backslash is left out of the reserved set. *)
make_friendly_path_NoBackslash(path) ==
    [i \in 1..Len(path) |->
        IF path[i] \notin (invalid_chars \ {"\\"}) THEN path[i] ELSE "_"]

make_friendly_path(path) ==
    [i \in 1..Len(path) |-> IF path[i] \notin invalid_chars THEN path[i] ELSE "_"]

(***************************************************************************)
(* Tag extraction, lines 61-105.  The bytes of a file carry, per logical   *)
(* field, the list of values stored for it (empty list: field absent).     *)
(***************************************************************************)
NoTags == [ok |-> FALSE, artist |-> <<>>, album |-> <<>>, title |-> <<>>]

(* Faulty variant: a field with several values yields its first value. *)
ExtractFLAC_FirstValue(bytes) ==
    IF ~bytes.parsable THEN NoTags
    ELSE IF Len(bytes.artist) = 0 THEN NoTags
    ELSE IF Len(bytes.album) = 0 THEN NoTags
    ELSE IF Len(bytes.title) = 0 THEN NoTags
    ELSE [ok |-> TRUE,
          artist |-> make_friendly_path(bytes.artist[1]),
          album |-> make_friendly_path(bytes.album[1]),
          title |-> make_friendly_path(bytes.title[1])]

ExtractFLAC(bytes) ==
    IF ~bytes.parsable THEN NoTags
    ELSE IF Len(bytes.artist) # 1 THEN NoTags
    ELSE IF Len(bytes.album) # 1 THEN NoTags
    ELSE IF Len(bytes.title) # 1 THEN NoTags
    ELSE [ok |-> TRUE,
          artist |-> make_friendly_path(bytes.artist[1]),
          album |-> make_friendly_path(bytes.album[1]),
          title |-> make_friendly_path(bytes.title[1])]

ExtractID3(bytes) ==
    IF ~bytes.parsable THEN NoTags
    ELSE IF Len(bytes.artist) = 0 THEN NoTags
    ELSE IF Len(bytes.album) = 0 THEN NoTags
    ELSE IF Len(bytes.title) = 0 THEN NoTags
    ELSE [ok |-> TRUE,
          artist |-> make_friendly_path(JoinNul(bytes.artist)),
          album |-> make_friendly_path(JoinNul(bytes.album)),
          title |-> make_friendly_path(JoinNul(bytes.title))]

Extract(f) ==
    IF Lower(SplitExt(f.name)[2]) = <<".","f","l","a","c">>
    THEN ExtractFLAC(f.bytes)
    ELSE ExtractID3(f.bytes)

(***************************************************************************)
(* The destination tree: a function from paths to entries.  The root <<>>  *)
(* is always a directory.                                                  *)
(***************************************************************************)
DirEntry == [kind |-> "dir"]
FileEntry(b, m) == [kind |-> "file", bytes |-> b, mtime |-> m]

EmptyTree == (<<>> :> DirEntry)

(* os.path.join(p, ''): the directory p itself. *)
Join(p, c) == IF c = <<>> THEN p ELSE Append(p, c)

Exists(tr, p) == p \in DOMAIN tr

(* st_size of a file, a function of its bytes. *)
RECURSIVE SumLen(_)
SumLen(vals) == IF vals = <<>> THEN 0 ELSE 1 + Len(Head(vals)) + SumLen(Tail(vals))

Size(b) == SumLen(b.artist) + SumLen(b.album) + SumLen(b.title) + Len(b.audio)

(* filecmp.cmp(src, dest) with its default shallow=True: a destination  *)
(* that is not a regular file differs; equal (size, mtime) signatures   *)
(* are taken as equal without reading; otherwise the bytes decide.      *)
(* Faulty variant: no two files ever compare equal. *)
FileCmp_NeverSame(f, e) == FALSE

FileCmp(f, e) ==
    IF e.kind # "file" THEN FALSE
    ELSE IF Size(f.bytes) = Size(e.bytes) /\ f.mtime = e.mtime THEN TRUE
    ELSE IF Size(f.bytes) # Size(e.bytes) THEN FALSE
    ELSE f.bytes = e.bytes

(* shutil.copy2: the bytes and the modification time reach the destination. *)
Copy2(tr, f, p) == (p :> FileEntry(f.bytes, f.mtime)) @@ tr

ModifiedName(title, duplicate_count, ext) ==
    IF duplicate_count = 0 THEN title \o ext
    ELSE title \o <<"_">> \o Str(duplicate_count) \o ext

(* Faulty variant: the unsuffixed name is taken without probing. *)
ProbeChain_NoProbe(f, tr, album_path, title, ext, duplicate_count) ==
    [same |-> FALSE,
     path |-> Append(album_path, ModifiedName(title, duplicate_count, ext))]

RECURSIVE ProbeChain(_, _, _, _, _, _)
ProbeChain(f, tr, album_path, title, ext, duplicate_count) ==
    LET p == Append(album_path, ModifiedName(title, duplicate_count, ext))
    IN  IF Exists(tr, p)
        THEN IF FileCmp(f, tr[p])
             THEN [same |-> TRUE, path |-> p]
             ELSE ProbeChain(f, tr, album_path, title, ext, duplicate_count + 1)
        ELSE [same |-> FALSE, path |-> p]

(* The outcome of move_audio_file: its return value, or an exception that *)
(* leaves it (raised), and the destination tree it leaves behind.         *)
Result(ret, raised, tr) == [ret |-> ret, raised |-> raised, fs |-> tr]

(* os.makedirs under except FileExistsError: an existing path, file or *)
(* directory, is left as it is.                                        *)
MakeArtistDir(tr, artist_path) ==
    IF Exists(tr, artist_path) THEN tr ELSE (artist_path :> DirEntry) @@ tr

(* A path holding U+0000 makes os.makedirs and copy2 raise ValueError and  *)
(* os.path.exists return False; a regular file where a directory is       *)
(* needed makes them raise NotADirectoryError.  Neither is caught.         *)
move_audio_file(f, tr) ==
    LET ext == SplitExt(f.name)[2]
        tags == Extract(f)
        artist_path == Join(<<>>, tags.artist)
        album_path == Join(artist_path, tags.album)
        tr1 == MakeArtistDir(tr, artist_path)
        tr2 == IF Exists(tr1, album_path) THEN tr1
               ELSE (album_path :> DirEntry) @@ tr1
        probe == ProbeChain(f, tr2, album_path, tags.title, ext, 0)
    IN  IF ~tags.ok THEN Result(0, FALSE, tr)
        ELSE IF HasNul(tags.artist) THEN Result(0, TRUE, tr)
        ELSE IF HasNul(tags.album) THEN Result(0, TRUE, tr1)
        ELSE IF tags.album # <<>> /\ tr1[artist_path].kind = "file"
             THEN Result(0, TRUE, tr1)
        ELSE IF probe.same THEN Result(1, FALSE, tr2)
        ELSE IF HasNul(tags.title) \/ tr2[album_path].kind = "file"
             THEN Result(0, TRUE, tr2)
        ELSE Result(1, FALSE, Copy2(tr2, f, probe.path))

(***************************************************************************)
(* organize_by_tag: the walk, lines 141-159                                *)
(***************************************************************************)
(* Faulty variant: only .mp3 is recognized. *)
valid_exts_Mp3Only == {<<".","m","p","3">>}

valid_exts == {<<".","f","l","a","c">>, <<".","m","p","3">>}

unsupported_exts ==
    {<<".","w","a","v">>,
     <<".","p","c","m">>,
     <<".","a","i","f","f">>,
     <<".","a","a","c">>,
     <<".","m","4","a">>,
     <<".","o","g","g">>,
     <<".","w","m","a">>,
     <<".","a","a","c">>,
     <<".","a","l","a","c">>,
     <<".","a","p","e">>,
     <<".","o","p","u","s">>,
     <<".","r","a">>,
     <<".","r","m">>,
     <<".","v","o","x">>}

ReportNames == {"failures", "unsupported"}
NoReport == [exists |-> FALSE, lines |-> <<>>]
Report(lines) == [exists |-> TRUE, lines |-> lines]

Visit ==
    /\ pc = "walk"
    /\ idx <= Len(tree)
    /\ LET f == tree[idx]
           ext == Lower(SplitExt(f.name)[2])
           r == move_audio_file(f, fs)
       IN  IF ext \in valid_exts
           THEN /\ fs' = r.fs
                /\ log' = Append(log, [src |-> idx, ret |-> r.ret,
                                       raised |-> r.raised,
                                       created |-> DOMAIN r.fs \ DOMAIN fs,
                                       changed |-> r.fs # fs])
                /\ IF r.raised
                   THEN /\ pc' = "walk_raised"
                        /\ UNCHANGED <<idx, move_failures>>
                   ELSE /\ pc' = pc
                        /\ idx' = idx + 1
                        /\ move_failures' = IF r.ret = 0
                                            THEN Append(move_failures, idx)
                                            ELSE move_failures
                /\ UNCHANGED unsupported_files
           ELSE /\ idx' = idx + 1
                /\ unsupported_files' = IF ext \in unsupported_exts
                                        THEN Append(unsupported_files, idx)
                                        ELSE unsupported_files
                /\ UNCHANGED <<fs, log, pc, move_failures>>
    /\ UNCHANGED <<tree, run, cwdIsScript, cwdOutput, outputDir, reports,
                   sanIn, sanOut>>

(***************************************************************************)
(* organize_by_tag: the reports, lines 162-196.  os.makedirs('output') is  *)
(* relative to the working directory, output_dir to the script's folder.   *)
(***************************************************************************)
WriteReports(rep) ==
    [n \in ReportNames |->
        IF n = "failures" /\ Len(move_failures) >= 1 THEN Report(move_failures)
        ELSE IF n = "unsupported" /\ Len(unsupported_files) >= 1
             THEN Report(unsupported_files)
        ELSE rep[n]]

Finish ==
    /\ pc = "walk"
    /\ idx > Len(tree)
    /\ IF Len(move_failures) < 1 /\ Len(unsupported_files) < 1
       THEN /\ pc' = "done"
            /\ UNCHANGED <<cwdOutput, outputDir, reports>>
       ELSE IF outputDir = "absent" /\ ~cwdIsScript
       THEN /\ pc' = "report_raised"
            /\ cwdOutput' = TRUE
            /\ UNCHANGED <<outputDir, reports>>
       ELSE /\ pc' = "done"
            /\ outputDir' = "present"
            /\ reports' = WriteReports(reports)
            /\ UNCHANGED cwdOutput
    /\ UNCHANGED <<tree, idx, run, fs, move_failures, unsupported_files,
                   cwdIsScript, log, sanIn, sanOut>>

(***************************************************************************)
(* Running the tool again on the same source and destination, lines        *)
(* 199-218: organize_by_tag starts over with fresh lists.                  *)
(***************************************************************************)
Rerun ==
    /\ pc \in {"done", "walk_raised", "report_raised"}
    /\ run < MaxRuns
    /\ run' = run + 1
    /\ pc' = "walk"
    /\ idx' = 1
    /\ move_failures' = <<>>
    /\ unsupported_files' = <<>>
    /\ log' = <<>>
    /\ UNCHANGED <<tree, fs, cwdIsScript, cwdOutput, outputDir, reports,
                   sanIn, sanOut>>

Next == Visit \/ Finish \/ Rerun

(***************************************************************************)
(* Source trees                                                            *)
(***************************************************************************)
Mp3Name == <<"x",".","m","p","3">>
UpperMp3Name == <<"x",".","M","P","3">>
FlacName == <<"x",".","f","l","a","c">>
WavName == <<"x",".","w","a","v">>
TxtName == <<"x",".","t","x","t">>

Tagged(artist, album, title, audio) ==
    [parsable |-> TRUE, artist |-> artist, album |-> album, title |-> title,
     audio |-> audio]
Corrupt == [parsable |-> FALSE, artist |-> <<>>, album |-> <<>>,
            title |-> <<>>, audio |-> <<0>>]
SrcFile(name, mtime, bytes) == [name |-> name, mtime |-> mtime, bytes |-> bytes]

ABa(audio) == Tagged(<< <<"A">> >>, << <<"B">> >>, << <<"a">> >>, audio)

PlaceFiles ==
    {SrcFile(Mp3Name, m, ABa(au)) : m \in {1, 2}, au \in {<<0>>, <<1>>, <<1, 1>>}}
    \cup {SrcFile(Mp3Name, 1, Tagged(<< <<"A">> >>, << <<"B">> >>,
                                      << <<"a", ":", "1">> >>, <<0>>)),
          SrcFile(FlacName, 1, ABa(<<0>>))}

WalkFiles ==
    {SrcFile(Mp3Name, 1, ABa(<<0>>)),
     SrcFile(FlacName, 1, Tagged(<< <<"A">>, <<"C">> >>, << <<"B">> >>,
                                 << <<"a">> >>, <<0>>)),
     SrcFile(Mp3Name, 1, Tagged(<< <<"A">>, <<"C">> >>, << <<"B">> >>,
                                << <<"a">> >>, <<0>>)),
     SrcFile(Mp3Name, 1, Tagged(<<>>, << <<"B">> >>, << <<"a">> >>, <<0>>)),
     SrcFile(FlacName, 1, Tagged(<< <<"A">> >>, <<>>, << <<"a">> >>, <<0>>)),
     SrcFile(FlacName, 1, Tagged(<< <<"A">> >>, << <<"B">> >>, <<>>, <<0>>)),
     SrcFile(UpperMp3Name, 1, Tagged(<< <<"A">> >>, << <<"B">> >>,
                                     << <<>> >>, <<0>>)),
     SrcFile(Mp3Name, 1, Tagged(<< <<>> >>, << <<>> >>, << <<"a">> >>, <<0>>)),
     SrcFile(Mp3Name, 1, Tagged(<< <<"a",".","m","p","3">> >>, << <<"B">> >>,
                                << <<"a">> >>, <<0>>)),
     SrcFile(FlacName, 1, Corrupt),
     SrcFile(WavName, 1, Corrupt),
     SrcFile(TxtName, 1, Corrupt)}

EnvFiles ==
    {SrcFile(Mp3Name, 1, ABa(<<0>>)),
     SrcFile(Mp3Name, 1, Tagged(<<>>, << <<"B">> >>, << <<"a">> >>, <<0>>)),
     SrcFile(WavName, 1, Corrupt),
     SrcFile(TxtName, 1, Corrupt)}

Trees(files) == UNION {[1..n -> files] : n \in 0..MaxFiles}

StaleReport == Report(<<0>>)

InitWalk(files) ==
    /\ tree \in Trees(files)
    /\ idx = 1
    /\ pc = "walk"
    /\ run = 1
    /\ fs = EmptyTree
    /\ move_failures = <<>>
    /\ unsupported_files = <<>>
    /\ log = <<>>
    /\ sanIn = <<>>
    /\ sanOut = <<>>

ScriptDirEnv ==
    /\ cwdIsScript = TRUE
    /\ cwdOutput = FALSE
    /\ outputDir = "absent"
    /\ reports = [n \in ReportNames |-> NoReport]

AnyEnv ==
    /\ cwdIsScript \in BOOLEAN
    /\ cwdOutput \in (IF cwdIsScript THEN {FALSE} ELSE BOOLEAN)
    /\ outputDir \in {"absent", "present"}
    /\ reports \in (IF outputDir = "absent"
                    THEN {[n \in ReportNames |-> NoReport]}
                    ELSE [ReportNames -> {NoReport, StaleReport}])

Init == InitWalk(PlaceFiles) /\ ScriptDirEnv
InitErr == InitWalk(WalkFiles) /\ ScriptDirEnv
InitEnv == InitWalk(EnvFiles) /\ AnyEnv

Spec == Init /\ [][Next]_vars
SpecWalk == InitErr /\ [][Next]_vars
SpecEnv == InitEnv /\ [][Next]_vars

(***************************************************************************)
(* The sanitizer on its own: every string up to MaxLen over the reserved   *)
(* characters and two ordinary ones, sanitized once and then again.        *)
(***************************************************************************)
SanAlphabet == invalid_chars \cup {"_", "a"}

SanStrings == UNION {[1..n -> SanAlphabet] : n \in 0..MaxLen}

InitSan ==
    /\ sanIn \in SanStrings
    /\ sanOut = <<>>
    /\ tree = <<>>
    /\ idx = 1
    /\ pc = "idle"
    /\ run = 1
    /\ fs = EmptyTree
    /\ move_failures = <<>>
    /\ unsupported_files = <<>>
    /\ log = <<>>
    /\ ScriptDirEnv

Sanitize ==
    /\ Len(sanOut) < 2
    /\ sanOut' = Append(sanOut, make_friendly_path(
                     IF sanOut = <<>> THEN sanIn ELSE sanOut[Len(sanOut)]))
    /\ UNCHANGED <<sanIn, walkVars>>

NextSan == Sanitize

SpecSan == InitSan /\ [][NextSan]_vars

(***************************************************************************)
(* Properties                                                              *)
(***************************************************************************)
Fields == {"artist", "album", "title"}

ExtOf(i) == SplitExt(tree[i].name)[2]

Attempted == {log[j].src : j \in 1..Len(log)}

Count(x, seq) == Cardinality({k \in 1..Len(seq) : seq[k] = x})

InSeq(x, seq) == \E k \in 1..Len(seq) : seq[k] = x

(* The n-th candidate of the collision chain of file f: A/B/T.E, A/B/T_1.E, ... *)
ChainPath(f, n) ==
    LET t == Extract(f)
    IN  Append(Join(Join(<<>>, t.artist), t.album),
               ModifiedName(t.title, n, SplitExt(f.name)[2]))

SameChain(f, g) ==
    /\ Extract(f) = Extract(g)
    /\ SplitExt(f.name)[2] = SplitExt(g.name)[2]

IsFile(tr, p) == p \in DOMAIN tr /\ tr[p].kind = "file"

(* C1: from an empty destination, when every file placed so far carries   *)
(* the same sanitized triple and extension, the first file is at A/B/T.E  *)
(* and each file whose bytes differ from all earlier ones is at           *)
(* A/B/T_k.E, k being the number of distinct contents placed before it.   *)
C1_SuffixByArrival ==
    (/\ run = 1
     /\ \A j \in 1..Len(log) :
            /\ Extract(tree[log[j].src]).ok
            /\ SameChain(tree[log[j].src], tree[log[1].src]))
    => \A j \in 1..Len(log) :
          LET f == tree[log[j].src]
              earlier == {tree[log[i].src].bytes : i \in 1..(j - 1)}
              p == ChainPath(f, Cardinality(earlier))
          IN  f.bytes \notin earlier
              => /\ log[j].ret = 1
                 /\ p \in log[j].created
                 /\ IsFile(fs, p)
                 /\ fs[p].bytes = f.bytes

(* C2: placing a file whose bytes equal those of an entry of its collision *)
(* chain returns 1 and writes nothing, and a second run of the tool over   *)
(* the same source tree leaves the destination tree as it was.             *)
DuplicateArrives ==
    /\ pc = "walk"
    /\ idx <= Len(tree)
    /\ Lower(ExtOf(idx)) \in {<<".","f","l","a","c">>, <<".","m","p","3">>}
    /\ Extract(tree[idx]).ok
    /\ \E n \in 0..Cardinality(DOMAIN fs) :
          /\ \A m \in 0..n : ChainPath(tree[idx], m) \in DOMAIN fs
          /\ IsFile(fs, ChainPath(tree[idx], n))
          /\ fs[ChainPath(tree[idx], n)].bytes = tree[idx].bytes

C2_DuplicateNoWrite ==
    [][/\ DuplicateArrives
          => /\ fs' = fs
             /\ log' # log
             /\ log'[Len(log')].ret = 1
             /\ ~log'[Len(log')].raised
             /\ move_failures' = move_failures
       /\ run >= 2 => fs' = fs]_vars

C2_Witness ==
    /\ run = 2
    /\ pc = "done"
    /\ \E j \in 1..Len(log) : \E p \in DOMAIN fs :
          /\ log[j].ret = 1
          /\ ~log[j].changed
          /\ IsFile(fs, p)
          /\ fs[p].bytes = tree[log[j].src].bytes
          /\ fs[p].mtime # tree[log[j].src].mtime

(* C3: for every sanitized triple and extension placed, the entries T,    *)
(* T_1, ... present on disk are numbered without a gap, pairwise          *)
(* byte-distinct, and as many as the distinct contents placed with it.    *)
C3_ChainInvariant ==
    run = 1 =>
      \A j \in 1..Len(log) :
         LET f == tree[log[j].src]
             present == {n \in 0..(MaxFiles + 1) : ChainPath(f, n) \in DOMAIN fs}
             contents == {tree[log[i].src].bytes : i \in
                            {k \in 1..Len(log) :
                                /\ log[k].ret = 1
                                /\ SameChain(tree[log[k].src], f)}}
         IN  log[j].ret = 1
             => /\ present = 0..(Cardinality(present) - 1)
                /\ \A n \in present : IsFile(fs, ChainPath(f, n))
                /\ \A n, m \in present :
                      n # m => fs[ChainPath(f, n)].bytes # fs[ChainPath(f, m)].bytes
                /\ Cardinality(present) = Cardinality(contents)

(* C4: a recognized audio file whose container does not parse, or in      *)
(* which artist, album or title is absent or (block-based format) has     *)
(* more than one value, makes move_audio_file return 0 without creating   *)
(* anything, and is listed exactly once in the missing-tags list.         *)
LacksTag(i) ==
    \/ ~tree[i].bytes.parsable
    \/ \E fld \in Fields :
          \/ Len(tree[i].bytes[fld]) = 0
          \/ /\ Lower(ExtOf(i)) = <<".","f","l","a","c">>
             /\ Len(tree[i].bytes[fld]) > 1

C4_MissingTagFails ==
    \A j \in 1..Len(log) :
       LacksTag(log[j].src)
       => /\ log[j].ret = 0
          /\ ~log[j].raised
          /\ ~log[j].changed
          /\ log[j].created = {}
          /\ Count(log[j].src, move_failures) = 1

C4_Witness ==
    /\ pc = "done"
    /\ \E j \in 1..Len(log) :
          /\ LacksTag(log[j].src)
          /\ tree[log[j].src].bytes.parsable
          /\ Lower(ExtOf(log[j].src)) = <<".","f","l","a","c">>
          /\ \E fld \in Fields : Len(tree[log[j].src].bytes[fld]) > 1
    /\ \E j \in 1..Len(log) :
          /\ tree[log[j].src].bytes.parsable
          /\ \E fld \in Fields : Len(tree[log[j].src].bytes[fld]) = 0
    /\ \E j \in 1..Len(log) : log[j].ret = 1

(* C5: a file in which artist, album or title is present but the empty    *)
(* string fails extraction: 0 is returned and nothing is written.         *)
HasEmptyTag(i) ==
    /\ tree[i].bytes.parsable
    /\ \E fld \in Fields : \E v \in 1..Len(tree[i].bytes[fld]) :
          tree[i].bytes[fld][v] = <<>>

C5_EmptyTagFails ==
    \A j \in 1..Len(log) :
       HasEmptyTag(log[j].src)
       => /\ log[j].ret = 0
          /\ ~log[j].changed

(* C6: every visited file falls in one class by its lower-cased           *)
(* extension; only .flac and .mp3 files reach move_audio_file, a          *)
(* known-but-unsupported file is in the unsupported list only, any other  *)
(* file is in neither list.                                               *)
RecognizedAudio(i) ==
    Lower(ExtOf(i)) \in {<<".","f","l","a","c">>, <<".","m","p","3">>}

KnownUnsupported(i) == ~RecognizedAudio(i) /\ Lower(ExtOf(i)) \in unsupported_exts

C6_Classification ==
    /\ \A i \in Attempted : RecognizedAudio(i)
    /\ \A k \in 1..Len(move_failures) : RecognizedAudio(move_failures[k])
    /\ \A k \in 1..Len(unsupported_files) : KnownUnsupported(unsupported_files[k])
    /\ \A i \in 1..(idx - 1) :
          /\ RecognizedAudio(i) => i \in Attempted
          /\ KnownUnsupported(i)
             => /\ Count(i, unsupported_files) = 1
                /\ ~InSeq(i, move_failures)
                /\ i \notin Attempted
          /\ (~RecognizedAudio(i) /\ ~KnownUnsupported(i))
             => /\ ~InSeq(i, unsupported_files)
                /\ ~InSeq(i, move_failures)
                /\ i \notin Attempted

C6_Witness ==
    /\ pc = "done"
    /\ \E i \in 1..Len(tree) : KnownUnsupported(i)
    /\ \E i \in 1..Len(tree) : ~RecognizedAudio(i) /\ ~KnownUnsupported(i)
    /\ \E i \in 1..Len(tree) :
          /\ ExtOf(i) # Lower(ExtOf(i))
          /\ i \in Attempted

(* C7: no failure of one file aborts the walk: the failing file is in the *)
(* missing-tags list and, once the walk is over, every recognized audio   *)
(* file has been attempted exactly once.                                  *)
C7_WalkNeverAborts ==
    /\ pc # "walk_raised"
    /\ \A j \in 1..Len(log) :
          (log[j].raised \/ log[j].ret = 0) => InSeq(log[j].src, move_failures)
    /\ pc \in {"done", "report_raised"}
       => \A i \in 1..Len(tree) :
             RecognizedAudio(i)
             => Cardinality({j \in 1..Len(log) : log[j].src = i}) = 1

(* C8: make_friendly_path keeps the length, replaces each reserved        *)
(* character by "_" and keeps every other character, so its output has    *)
(* no reserved character and applying it again changes nothing.           *)
Reserved == {"<", ">", ":", "\"", "/", "\\", "|", "?", "*"}

C8_Sanitizer ==
    /\ \A k \in 1..Len(sanOut) :
          LET in == IF k = 1 THEN sanIn ELSE sanOut[k - 1]
              out == sanOut[k]
          IN  /\ Len(out) = Len(in)
              /\ \A i \in 1..Len(in) :
                    /\ in[i] \in Reserved => out[i] = "_"
                    /\ in[i] \notin Reserved => out[i] = in[i]
                    /\ out[i] \notin Reserved
    /\ Len(sanOut) = 2 => sanOut[2] = sanOut[1]

C8_Witness ==
    /\ Len(sanOut) = 2
    /\ \E i \in 1..Len(sanIn) : sanIn[i] = "\\"
    /\ \E i \in 1..Len(sanIn) : sanIn[i] = "a"
    /\ sanOut[1] # sanIn

(* C9: no report changes while files remain to be walked; at the end of   *)
(* the run the report of each non-empty list holds exactly that list, in  *)
(* order, in place of any earlier report, and the report of an empty list *)
(* is neither created nor changed.                                        *)
ListOf(n) == IF n = "failures" THEN move_failures ELSE unsupported_files

C9_Reports ==
    [][/\ (pc = "walk" /\ idx <= Len(tree)) => reports' = reports
       /\ (pc = "walk" /\ idx > Len(tree))
          => \A n \in ReportNames :
                IF ListOf(n) # <<>>
                THEN reports'[n] = Report(ListOf(n))
                ELSE reports'[n] = reports[n]
       /\ pc # "walk" => reports' = reports]_vars

(* C10: a placement adds at most one file, at a path that did not exist,  *)
(* and changes nothing else: every entry of the destination tree stays    *)
(* as it was and the source tree is untouched.                            *)
C10_Frame ==
    [][/\ \A p \in DOMAIN fs : p \in DOMAIN fs' /\ fs'[p] = fs[p]
       /\ Cardinality({p \in DOMAIN fs' \ DOMAIN fs : fs'[p].kind = "file"}) <= 1
       /\ tree' = tree]_vars

C10_Witness ==
    /\ run = 1
    /\ \E j \in 1..Len(log) : \E p \in log[j].created :
          /\ j > 1
          /\ IsFile(fs, p)
          /\ p = ChainPath(tree[log[j].src], 1)
          /\ IsFile(fs, ChainPath(tree[log[j].src], 0))

====
